---- MODULE Spec2Model ----
(***************************************************************************)
(* Migration audit of libra-framework (tools/genesis/src/compare.rs).      *)
(*                                                                         *)
(* compare_recovery_vec_to_genesis_tx walks a vector of legacy recovery    *)
(* records, looks each account up in the migrated ledger and collects      *)
(* CompareError findings.  The model keeps the caller's vector, the        *)
(* private normalised copy, the loop position, the finding list, the       *)
(* running supply and the way the call ended (Ok, or a panic raised by an  *)
(* expect/unwrap or by the u64 addition).                                  *)
(***************************************************************************)
EXTENDS Integers, Sequences, FiniteSets, TLC

(***************************************************************************)
(* Bounds of the model.                                                    *)
(***************************************************************************)
\* longest recovery vector handed to the audit
MaxLen == 2
\* largest value of the u64 type, scaled down so that the running total of a
\* few balances can exceed it: the u64 addition overflows above U64Max
U64Max == 1

(***************************************************************************)
(* Option<T>: None is the empty tuple, Some(x) the one-element tuple.      *)
(***************************************************************************)
None == << >>
Some(x) == << x >>
Option(S) == {None} \cup {Some(x) : x \in S}
unwrap(o) == o[1]

(***************************************************************************)
(* Addresses, roles and legacy records.                                    *)
(***************************************************************************)
SystemAddress == "0x0"
UserAddresses == {"0xA"}
Addresses == {SystemAddress} \cup UserAddresses

\* AccountRole: the audit only distinguishes Drop from every other role
AccountRole == {"Normal", "Drop"}

\* the coin and unlocked amounts the inputs are drawn from (u64 values)
Coins == {0, 1}

\* the legacy records of user accounts and of records without an account
UserRecords ==
    [ account     : Option(UserAddresses),
      role        : AccountRole,
      balance     : Option([coin : Coins]),
      slow_wallet : Option([unlocked : Coins]) ]

\* the legacy record of the system account: a plain balance
SystemRecords ==
    [ account     : {Some(SystemAddress)},
      role        : {"Normal"},
      balance     : {Some([coin |-> c]) : c \in Coins},
      slow_wallet : {None} ]

LegacyRecoveryV6 == UserRecords \cup SystemRecords

(***************************************************************************)
(* The migrated ledger.  For each account and resource type the store      *)
(* holds nothing, bytes that do not decode as the resource, or a value.    *)
(***************************************************************************)
Absent == [tag |-> "absent", v |-> 0]
Undecodable == [tag |-> "undecodable", v |-> 0]
Stored(c) == [tag |-> "stored", v |-> c]
Slot == {Absent, Undecodable} \cup {Stored(c) : c \in Coins}

AccountState == [GasCoinStoreResource : Slot, SlowWalletBalance : Slot]

\* the system account of a migrated ledger: a coin store, no slow wallet
SystemState ==
    [GasCoinStoreResource |-> Stored(1), SlowWalletBalance |-> Absent]

Ledgers ==
    { d \in [Addresses -> AccountState] : d[SystemAddress] = SystemState }

\* get_move_resource::<T>() : Result<Option<T>>
get_move_resource(ledger, address, T) ==
    LET slot == ledger[address][T]
    IN  CASE slot.tag = "absent"      -> [ok |-> TRUE,  val |-> None]
          [] slot.tag = "undecodable" -> [ok |-> FALSE, val |-> None]
          [] OTHER                    -> [ok |-> TRUE,  val |-> Some(slot.v)]

(***************************************************************************)
(* Inputs of one run.                                                      *)
(***************************************************************************)
SeqUpTo(S, n) == UNION { [1 .. m -> S] : m \in 0 .. n }

RecoveryVectors == SeqUpTo(LegacyRecoveryV6, MaxLen)

(***************************************************************************)
(* State.                                                                  *)
(***************************************************************************)
VARIABLES
    recovery,     \* the caller's slice of LegacyRecoveryV6
    db,           \* the migrated ledger behind db_reader
    r_as_vec,     \* the private, normalised copy the loop walks
    i,            \* records of r_as_vec whose closure has returned
    err_list,     \* Vec<CompareError>
    user_supply,  \* u64 running total of migrated balances
    lookups,      \* get_move_resource calls made so far: <<index, resource>>
    pc,           \* "start", "loop", "done" (returned Ok) or "panic"
    panic_msg,    \* message of the panic that ended the call, "" if none
    result        \* Some(list) once the call has returned Ok(list)

\* check_supply
VARIABLES
    expected_supply,  \* the u64 expected total handed in by the caller
    supply_outcome    \* "none" before the call, then "ok" or "panic"

\* check_val_set
VARIABLES
    expected_vals,    \* the caller's slice of expected validator addresses
    genesis_vals,     \* what the genesis transaction holds for the validator set
    val_outcome,      \* how check_val_set ended: [kind, msg, validator]
    contains_calls    \* the addresses handed to addrs.contains, in order

\* export_account_balances
VARIABLES
    export_pc,        \* "idle", "loop", "done" (returned Ok) or "panic"
    export_i,         \* records of recovery whose closure has returned
    export_list,      \* list: Vec<JsonDump>
    file              \* Some(entries) once genesis_balances.json is written

\* repeated runs, and a writer beside the run
VARIABLES
    db_at_start,      \* the ledger as it was when the run began
    runs              \* the finding lists returned by the calls before this one

\* compare_json_to_genesis_blob
VARIABLES
    blob              \* [json_file, genesis_file, boot, step, calls]

\* GenesisWizard::start_wizard
VARIABLES
    wizard            \* fields of self, position, answers and the steps run

\* ReleaseTarget::create_release and load_bundle
VARIABLES
    release           \* target, arguments, environment, files and what was read

audit_vars == << recovery, db, r_as_vec, i, err_list, user_supply, lookups,
                 pc, panic_msg, result >>

supply_vars == << expected_supply, supply_outcome >>

val_vars == << expected_vals, genesis_vals, val_outcome, contains_calls >>

export_vars == << export_pc, export_i, export_list, file >>

rest_vars == << db_at_start, runs, blob, wizard, release >>

vars == << recovery, db, r_as_vec, i, err_list, user_supply, lookups, pc,
           panic_msg, result, expected_supply, supply_outcome, expected_vals,
           genesis_vals, val_outcome, contains_calls, export_pc, export_i,
           export_list, file, db_at_start, runs, blob, wizard, release >>

(***************************************************************************)
(* legacy_recovery_v6::strip_system_address: drops the records of the      *)
(* system account from the vector.                                         *)
(***************************************************************************)
keeps_record(e) == e.account # Some(SystemAddress)

strip_system_address(list) == SelectSeq(list, keeps_record)

(***************************************************************************)
(* CompareError values pushed by the loop body.                            *)
(***************************************************************************)
CompareError(index, account, expected, migrated, message) ==
    [ index    |-> index,
      account  |-> account,
      expected |-> expected,
      migrated |-> migrated,
      message  |-> message ]

MsgNone == "account is None"
MsgBalance == "unexpected balance"
MsgSlow == "unexpected slow wallet unlocked"
MsgUnlock == "unlocked greater than balance"

PanicDecodeBalance == "should have move resource"
PanicNoLegacyBalance == "should have a balance struct"
PanicOverflow == "attempt to add with overflow"
PanicDecodeSlow == "should have a slow wallet struct"
PanicNoSlow == "called Option::unwrap() on a None value"

\* the Drop test left out
is_drop_never(old) == FALSE

is_drop(old) == old.role = "Drop"

account_is_none(old) == old.account = None

\* the finding numbered from 1
account_none_errors_one_based(idx) ==
    << CompareError(idx + 1, None, 0, 0, MsgNone) >>

account_none_errors(idx) ==
    << CompareError(idx, None, 0, 0, MsgNone) >>

\* expected and migrated exchanged
balance_errors_swapped(idx, old, coin) ==
    IF coin # unwrap(old.balance).coin
    THEN << CompareError(idx, old.account, coin, unwrap(old.balance).coin,
                         MsgBalance) >>
    ELSE << >>

\* only a migrated balance below the legacy one is reported
balance_errors_only_less(idx, old, coin) ==
    IF coin < unwrap(old.balance).coin
    THEN << CompareError(idx, old.account, unwrap(old.balance).coin, coin,
                         MsgBalance) >>
    ELSE << >>

balance_errors(idx, old, coin) ==
    IF coin # unwrap(old.balance).coin
    THEN << CompareError(idx, old.account, unwrap(old.balance).coin, coin,
                         MsgBalance) >>
    ELSE << >>

\* only a migrated unlocked above the legacy one is reported
slow_unlocked_errors_only_greater(idx, old, unlocked) ==
    IF unlocked > unwrap(old.slow_wallet).unlocked
    THEN << CompareError(idx, old.account, unwrap(old.slow_wallet).unlocked,
                         unlocked, MsgSlow) >>
    ELSE << >>

slow_unlocked_errors(idx, old, unlocked) ==
    IF unlocked # unwrap(old.slow_wallet).unlocked
    THEN << CompareError(idx, old.account, unwrap(old.slow_wallet).unlocked,
                         unlocked, MsgSlow) >>
    ELSE << >>

\* >= in place of >
unlocked_gt_balance_errors_ge(idx, old, unlocked, coin) ==
    IF unlocked >= coin
    THEN << CompareError(idx, old.account, unlocked, coin, MsgUnlock) >>
    ELSE << >>

\* the check made only in the branch of an unlocked mismatch
unlocked_gt_balance_errors_on_mismatch(idx, old, unlocked, coin) ==
    IF unlocked # unwrap(old.slow_wallet).unlocked /\ unlocked > coin
    THEN << CompareError(idx, old.account, unlocked, coin, MsgUnlock) >>
    ELSE << >>

unlocked_gt_balance_errors(idx, old, unlocked, coin) ==
    IF unlocked > coin
    THEN << CompareError(idx, old.account, unlocked, coin, MsgUnlock) >>
    ELSE << >>

(***************************************************************************)
(* One run of the closure given to for_each.  The value is the set of ways *)
(* the closure can end: what it pushed, the supply it left, the lookups it *)
(* made, and the panic message ("" when it returned).                      *)
(***************************************************************************)
Outcome(errs, supply, looks, panic) ==
    [errs |-> errs, supply |-> supply, looks |-> looks, panic |-> panic]

\* the two slow wallet tests in the other order
slow_wallet_checks_unlock_first(idx, old, ledger, coin, errs, supply, looks) ==
    IF old.slow_wallet = None
    THEN Outcome(errs, supply, looks, "")
    ELSE
      LET new_slow == get_move_resource(ledger, unwrap(old.account),
                                        "SlowWalletBalance")
          looks2 == Append(looks, << idx, "SlowWalletBalance" >>)
      IN  IF ~new_slow.ok
          THEN Outcome(errs, supply, looks2, PanicDecodeSlow)
          ELSE IF new_slow.val = None
          THEN Outcome(errs, supply, looks2, PanicNoSlow)
          ELSE Outcome(errs
                         \o unlocked_gt_balance_errors(idx, old,
                                                unwrap(new_slow.val), coin)
                         \o slow_unlocked_errors(idx, old, unwrap(new_slow.val)),
                       supply, looks2, "")

\* lines 103-129: the slow wallet checks
slow_wallet_checks(idx, old, ledger, coin, errs, supply, looks) ==
    IF old.slow_wallet = None
    THEN Outcome(errs, supply, looks, "")
    ELSE
      LET new_slow == get_move_resource(ledger, unwrap(old.account),
                                        "SlowWalletBalance")
          looks2 == Append(looks, << idx, "SlowWalletBalance" >>)
      IN  IF ~new_slow.ok
          THEN Outcome(errs, supply, looks2, PanicDecodeSlow)
          ELSE IF new_slow.val = None
          THEN Outcome(errs, supply, looks2, PanicNoSlow)
          ELSE Outcome(errs
                         \o slow_unlocked_errors(idx, old, unwrap(new_slow.val))
                         \o unlocked_gt_balance_errors(idx, old,
                                                unwrap(new_slow.val), coin),
                       supply, looks2, "")

\* line 101: user_supply += coin on a u64.  A build with overflow checks
\* panics when the sum does not fit; a build without them wraps.
add_u64(a, b) ==
    IF a + b > U64Max
    THEN {[panic |-> TRUE, v |-> a], [panic |-> FALSE, v |-> (a + b) % (U64Max + 1)]}
    ELSE {[panic |-> FALSE, v |-> a + b]}

\* the absent balance unwrapped without the is_none test
missing_balance_outcome_panics(supply, looks) ==
    Outcome(<< >>, supply, looks, "should have balance")

\* lines 82-85: no balance resource for the account: print and return
missing_balance_outcome(supply, looks) == Outcome(<< >>, supply, looks, "")

for_each_body(idx, old, ledger, supply) ==
    IF is_drop(old)
    THEN {Outcome(<< >>, supply, << >>, "")}
    ELSE IF account_is_none(old)
    THEN {Outcome(account_none_errors(idx), supply, << >>, "")}
    ELSE
      LET on_chain_balance == get_move_resource(ledger, unwrap(old.account),
                                                "GasCoinStoreResource")
          looks == << << idx, "GasCoinStoreResource" >> >>
      IN  IF ~on_chain_balance.ok
          THEN {Outcome(<< >>, supply, looks, PanicDecodeBalance)}
          ELSE IF on_chain_balance.val = None
          THEN {missing_balance_outcome(supply, looks)}
          ELSE IF old.balance = None
          THEN {Outcome(<< >>, supply, looks, PanicNoLegacyBalance)}
          ELSE
            LET coin == unwrap(on_chain_balance.val)
                errs == balance_errors(idx, old, coin)
            IN  { IF s.panic
                  THEN Outcome(errs, supply, looks, PanicOverflow)
                  ELSE slow_wallet_checks(idx, old, ledger, coin, errs, s.v,
                                          looks)
                  : s \in add_u64(supply, coin) }

(***************************************************************************)
(* The operations that are not part of a run stay as they are.             *)
(***************************************************************************)
NoValOutcome == [kind |-> "none", msg |-> "", validator |-> None]

SupplyIdle == expected_supply = 0 /\ supply_outcome = "none"

ValIdle ==
    /\ expected_vals = << >>
    /\ genesis_vals = [tag |-> "set", vals |-> << >>]
    /\ val_outcome = NoValOutcome
    /\ contains_calls = << >>

ExportIdle ==
    /\ export_pc = "idle"
    /\ export_i = 0
    /\ export_list = << >>
    /\ file = None

NoBlob ==
    [ json_file |-> "ok", genesis_file |-> "ok", boot |-> "ok",
      step |-> "idle", calls |-> << >> ]

\* lines 56-74: GenesisWizard::new, before start_wizard is called
WizardIdleState ==
    [ pc |-> "idle", do_genesis |-> FALSE, github_username |-> "",
      confirmed |-> "unasked", dialogue |-> "none", to_register |-> "unasked",
      ready |-> "unasked", steps |-> << >>, failed |-> {},
      github |-> << >>, pr |-> None, err |-> "" ]

\* no release is made: nothing is written and nothing is read
ReleaseIdleState ==
    [ pc |-> "idle", target |-> "Head", dev_mode |-> FALSE, out |-> None,
      cargo_env |-> None, cwd |-> "", files |-> {}, written |-> None,
      loaded |-> None ]

RestIdle ==
    /\ db_at_start = db
    /\ runs = << >>
    /\ blob = NoBlob
    /\ wizard = WizardIdleState
    /\ release = ReleaseIdleState

(***************************************************************************)
(* Actions.                                                                *)
(***************************************************************************)
AuditStart ==
    /\ r_as_vec = << >>
    /\ i = 0
    /\ err_list = << >>
    /\ user_supply = 0
    /\ lookups = << >>
    /\ pc = "start"
    /\ panic_msg = ""
    /\ result = None

Init ==
    /\ SupplyIdle
    /\ ValIdle
    /\ ExportIdle
    /\ recovery \in RecoveryVectors
    /\ db \in Ledgers
    /\ r_as_vec = << >>
    /\ i = 0
    /\ err_list = << >>
    /\ user_supply = 0
    /\ lookups = << >>
    /\ pc = "start"
    /\ panic_msg = ""
    /\ result = None
    /\ RestIdle

\* the normalisation applied to the caller's slice itself
Begin_strips_in_place ==
    /\ pc = "start"
    /\ recovery' = strip_system_address(recovery)
    /\ r_as_vec' = strip_system_address(recovery)
    /\ pc' = "loop"
    /\ UNCHANGED << db, i, err_list, user_supply, lookups, panic_msg, result >>
    /\ UNCHANGED << supply_vars, val_vars, export_vars >>
    /\ UNCHANGED rest_vars

\* lines 47-50: the copy of the caller's slice and its normalisation
Begin ==
    /\ pc = "start"
    /\ r_as_vec' = strip_system_address(recovery)
    /\ pc' = "loop"
    /\ UNCHANGED << recovery, db, i, err_list, user_supply, lookups,
                    panic_msg, result >>
    /\ UNCHANGED << supply_vars, val_vars, export_vars >>
    /\ UNCHANGED rest_vars

\* lines 57-130: the closure on the next record (enumerate counts from 0)
AuditRecord ==
    /\ pc = "loop"
    /\ i < Len(r_as_vec)
    /\ \E o \in for_each_body(i, r_as_vec[i + 1], db, user_supply) :
         /\ err_list' = err_list \o o.errs
         /\ user_supply' = o.supply
         /\ lookups' = lookups \o o.looks
         /\ panic_msg' = o.panic
         /\ IF o.panic = ""
            THEN i' = i + 1 /\ pc' = "loop"
            ELSE i' = i /\ pc' = "panic"
    /\ UNCHANGED << recovery, db, r_as_vec, result >>
    /\ UNCHANGED << supply_vars, val_vars, export_vars >>
    /\ UNCHANGED rest_vars

\* line 131: Ok(err_list)
Return ==
    /\ pc = "loop"
    /\ i = Len(r_as_vec)
    /\ result' = Some(err_list)
    /\ pc' = "done"
    /\ UNCHANGED << recovery, db, r_as_vec, i, err_list, user_supply,
                    lookups, panic_msg >>
    /\ UNCHANGED << supply_vars, val_vars, export_vars >>
    /\ UNCHANGED rest_vars

Next == Begin \/ AuditRecord \/ Return

Spec == Init /\ [][Next]_vars

(***************************************************************************)
(* check_supply (lines 251-269).                                           *)
(***************************************************************************)
\* largest value of the u128 type on the scale of U64Max
U128Max == (U64Max + 1) * (U64Max + 1) - 1

\* `x as u128`
as_u128(x) == x % (U128Max + 1)

\* `x as u64`
as_u64(x) == x % (U64Max + 1)

RECURSIVE SumCoins(_, _)
SumCoins(ledger, accounts) ==
    IF accounts = {}
    THEN 0
    ELSE LET a == CHOOSE x \in accounts : TRUE
             slot == ledger[a].GasCoinStoreResource
         IN  (IF slot.tag = "stored" THEN slot.v ELSE 0)
               + SumCoins(ledger, accounts \ {a})

\* genesis_reader::total_supply: the u128 total of the coin held in the
\* ledger, derived from the ledger alone
total_supply(ledger) == as_u128(SumCoins(ledger, DOMAIN ledger))

SupplyPanic == "supply mismatch"

\* the comparison made in 64 bits
check_supply_narrowed(expected, ledger) ==
    IF expected = as_u64(total_supply(ledger)) THEN "ok" ELSE "panic"

\* lines 261-268: assert_eq!(expected_supply as u128, on_chain_supply)
check_supply(expected, ledger) ==
    IF as_u128(expected) = total_supply(ledger) THEN "ok" ELSE "panic"

\* the records of a run that also checks the supply: the supply check does
\* not read them, and one record fewer keeps the product of the inputs small
SupplyRecoveryVectors == SeqUpTo(LegacyRecoveryV6, MaxLen - 1)

InitSupply ==
    /\ AuditStart
    /\ ValIdle
    /\ ExportIdle
    /\ recovery \in SupplyRecoveryVectors
    /\ db \in Ledgers
    /\ expected_supply \in 0 .. U64Max
    /\ supply_outcome = "none"
    /\ RestIdle

\* the harness calls check_supply on the ledger before or after the audit
CheckSupply ==
    /\ supply_outcome = "none"
    /\ pc \in {"start", "done"}
    /\ supply_outcome' = check_supply(expected_supply, db)
    /\ UNCHANGED << audit_vars, expected_supply, val_vars, export_vars >>
    /\ UNCHANGED rest_vars

\* a panic of check_supply ends the process
NextSupply ==
    \/ CheckSupply
    \/ (supply_outcome # "panic" /\ Begin)
    \/ (supply_outcome # "panic" /\ AuditRecord)
    \/ (supply_outcome # "panic" /\ Return)

SpecSupply == InitSupply /\ [][NextSupply]_vars

(***************************************************************************)
(* check_val_set and get_val_set (lines 202-249).                          *)
(***************************************************************************)
\* longest list of validator addresses, expected or migrated
MaxVals == 2

ValAddresses == {"0xA", "0xB", "0xC"}

NoDuplicates(sq) ==
    \A a, b \in 1 .. Len(sq) : a # b => sq[a] # sq[b]

\* the caller's slice: any addresses, in any order, repeated or not
ExpectedVals == SeqUpTo(ValAddresses, MaxVals)

\* what the genesis transaction gives: it does not bootstrap, the validator
\* set does not decode, there is none, or a list of distinct validators
GenesisVals ==
    { [tag |-> t, vals |-> << >>] :
        t \in {"bootstrap_error", "decode_error", "absent"} }
    \cup { [tag |-> "set", vals |-> l] :
             l \in { x \in SeqUpTo(ValAddresses, MaxVals) : NoDuplicates(x) } }

\* lines 203-212
get_val_set(g) ==
    CASE g.tag = "decode_error" ->
           [ok |-> FALSE, val |-> << >>, msg |-> "error calling get_validator_set"]
      [] g.tag = "absent" ->
           [ok |-> FALSE, val |-> << >>,
            msg |-> "db returns None for validator set struct"]
      [] OTHER -> [ok |-> TRUE, val |-> g.vals, msg |-> ""]

\* Vec::contains
contains(addrs, v) == \E j \in 1 .. Len(addrs) : addrs[j] = v

ValLenPanic == "validator set length mismatch"
ValContainPanic == "genesis does not contain validator"

ValOutcome(kind, msg, tested) ==
    [ outcome |-> [kind |-> kind, msg |-> msg, validator |-> None],
      tested  |-> tested ]

\* lines 244-246: the loop stops at the first assert! that fails; its
\* message is a fixed string
membership_checks(expected, addrs) ==
    LET missing == { j \in 1 .. Len(expected) : ~contains(addrs, expected[j]) }
    IN  IF missing = {}
        THEN ValOutcome("ok", "", expected)
        ELSE LET first == CHOOSE j \in missing : \A k \in missing : j <= k
             IN  ValOutcome("panic", ValContainPanic, SubSeq(expected, 1, first))

\* the length assertion left out
same_length_unchecked(addrs, expected) == TRUE

\* lines 238-242: assert_eq!(addrs.len(), expected_vals.len(), ...)
same_length(addrs, expected) == Len(addrs) = Len(expected)

\* the membership loop run before the length assertion
check_val_set_membership_first(expected, g) ==
    IF g.tag = "bootstrap_error"
    THEN ValOutcome("err", "bootstrap_db_reader_from_gen_tx", << >>)
    ELSE LET addrs == get_val_set(g)
         IN  IF ~addrs.ok
             THEN ValOutcome("err", addrs.msg, << >>)
             ELSE LET m == membership_checks(expected, addrs.val)
                  IN  IF m.outcome.kind = "panic"
                      THEN m
                      ELSE IF ~same_length(addrs.val, expected)
                      THEN ValOutcome("panic", ValLenPanic, m.tested)
                      ELSE m

\* lines 230-249
check_val_set(expected, g) ==
    IF g.tag = "bootstrap_error"
    THEN ValOutcome("err", "bootstrap_db_reader_from_gen_tx", << >>)
    ELSE LET addrs == get_val_set(g)
         IN  IF ~addrs.ok
             THEN ValOutcome("err", addrs.msg, << >>)
             ELSE IF ~same_length(addrs.val, expected)
             THEN ValOutcome("panic", ValLenPanic, << >>)
             ELSE membership_checks(expected, addrs.val)

\* no audit runs beside the validator set check
IdleLedger == [a \in Addresses |-> SystemState]

AuditIdle ==
    /\ AuditStart
    /\ recovery = << >>
    /\ db = IdleLedger

InitVal ==
    /\ AuditIdle
    /\ SupplyIdle
    /\ ExportIdle
    /\ expected_vals \in ExpectedVals
    /\ genesis_vals \in GenesisVals
    /\ val_outcome = NoValOutcome
    /\ contains_calls = << >>
    /\ RestIdle

CheckValSet ==
    /\ val_outcome.kind = "none"
    /\ LET r == check_val_set(expected_vals, genesis_vals)
       IN  /\ val_outcome' = r.outcome
           /\ contains_calls' = r.tested
    /\ UNCHANGED << audit_vars, supply_vars, expected_vals, genesis_vals,
                    export_vars >>
    /\ UNCHANGED rest_vars

NextVal == CheckValSet

SpecVal == InitVal /\ [][NextVal]_vars

(***************************************************************************)
(* export_account_balances (lines 141-187).                                *)
(***************************************************************************)
JsonDump(account, balance, slow) ==
    [account |-> account, balance |-> balance, slow |-> slow]

\* lines 158-160: an address is written as its hex literal and parsed back;
\* the model names an address by that literal
from_hex_literal_of(account) == unwrap(account)

\* lines 153-179: the closure on one record: what it pushes and whether an
\* expect panicked
export_body(old, ledger) ==
    IF old.account = None
    THEN [entries |-> << >>, panic |-> FALSE]
    ELSE
      LET account == from_hex_literal_of(old.account)
          slow == get_move_resource(ledger, account, "SlowWalletBalance")
          balance == get_move_resource(ledger, account, "GasCoinStoreResource")
      IN  IF ~slow.ok \/ ~balance.ok
          THEN [entries |-> << >>, panic |-> TRUE]
          ELSE [entries |-> << JsonDump(account, balance.val, slow.val) >>,
                panic |-> FALSE]

InitExport ==
    /\ AuditStart
    /\ SupplyIdle
    /\ ValIdle
    /\ recovery \in RecoveryVectors
    /\ db \in Ledgers
    /\ export_pc = "loop"
    /\ export_i = 0
    /\ export_list = << >>
    /\ file = None
    /\ RestIdle

ExportRecord ==
    /\ export_pc = "loop"
    /\ export_i < Len(recovery)
    /\ LET o == export_body(recovery[export_i + 1], db)
       IN  /\ export_list' = export_list \o o.entries
           /\ IF o.panic
              THEN export_i' = export_i /\ export_pc' = "panic"
              ELSE export_i' = export_i + 1 /\ export_pc' = "loop"
    /\ UNCHANGED << audit_vars, supply_vars, val_vars, file >>
    /\ UNCHANGED rest_vars

\* lines 181-186: the file is written, or the write fails and unwrap panics
ExportWrite ==
    /\ export_pc = "loop"
    /\ export_i = Len(recovery)
    /\ \/ file' = Some(export_list) /\ export_pc' = "done"
       \/ file' = file /\ export_pc' = "panic"
    /\ UNCHANGED << audit_vars, supply_vars, val_vars, export_i, export_list >>
    /\ UNCHANGED rest_vars

NextExport == ExportRecord \/ ExportWrite

SpecExport == InitExport /\ [][NextExport]_vars

(***************************************************************************)
(* A writer beside the audit.  The closure asks db_reader for             *)
(* latest_state_checkpoint_view() on every record (line 75), so each       *)
(* record reads the ledger as it is when its closure runs.                 *)
(***************************************************************************)
InitSnapshot ==
    /\ SupplyIdle
    /\ ValIdle
    /\ ExportIdle
    /\ AuditStart
    /\ recovery \in RecoveryVectors
    /\ db \in Ledgers
    /\ RestIdle

\* the owner of the database commits one change to the accounts while the
\* audit is between two records
Commit ==
    /\ pc = "loop"
    /\ 0 < i
    /\ i < Len(r_as_vec)
    /\ db = db_at_start
    /\ \E d \in Ledgers : d # db /\ db' = d
    /\ UNCHANGED << recovery, r_as_vec, i, err_list, user_supply, lookups,
                    pc, panic_msg, result >>
    /\ UNCHANGED << supply_vars, val_vars, export_vars, rest_vars >>

NextSnapshot == Begin \/ AuditRecord \/ Return \/ Commit

SpecSnapshot == InitSnapshot /\ [][NextSnapshot]_vars

(***************************************************************************)
(* compare_json_to_genesis_blob (lines 189-200), called once and then once *)
(* more on the same two files.  recovery is what the recovery file parses  *)
(* to, db what the genesis blob bootstraps to.                             *)
(***************************************************************************)
JsonFiles == {"ok", "unreadable", "malformed"}
GenesisFiles == {"ok", "unreadable"}
Bootstraps == {"ok", "error"}

\* one record fewer than the audit alone: the call is made twice
BlobRecoveryVectors == SeqUpTo(LegacyRecoveryV6, MaxLen - 1)

InitBlob ==
    /\ SupplyIdle
    /\ ValIdle
    /\ ExportIdle
    /\ AuditStart
    /\ recovery \in BlobRecoveryVectors
    /\ db \in Ledgers
    /\ db_at_start = db
    /\ runs = << >>
    /\ blob \in [ json_file : JsonFiles, genesis_file : GenesisFiles,
                  boot : Bootstraps, step : {"parse"}, calls : {<< >>} ]
    /\ wizard = WizardIdleState
    /\ release = ReleaseIdleState

\* the error of the parse dropped, the call going on
ParseJson_ignores_error ==
    /\ blob.step = "parse"
    /\ blob' = [blob EXCEPT !.calls = Append(@, "recovery_file_parse"),
                            !.step = "read_blob"]
    /\ UNCHANGED << audit_vars, supply_vars, val_vars, export_vars,
                    db_at_start, runs, wizard, release >>

\* line 195: parse_json::recovery_file_parse(json_path)?
ParseJson ==
    /\ blob.step = "parse"
    /\ blob' = [blob EXCEPT !.calls = Append(@, "recovery_file_parse"),
                            !.step = IF blob.json_file = "ok"
                                     THEN "read_blob" ELSE "err"]
    /\ UNCHANGED << audit_vars, supply_vars, val_vars, export_vars,
                    db_at_start, runs, wizard, release >>

\* line 197: genesis_reader::read_blob_to_tx(genesis_path)?
ReadBlob ==
    /\ blob.step = "read_blob"
    /\ blob' = [blob EXCEPT !.calls = Append(@, "read_blob_to_tx"),
                            !.step = IF blob.genesis_file = "ok"
                                     THEN "bootstrap" ELSE "err"]
    /\ UNCHANGED << audit_vars, supply_vars, val_vars, export_vars,
                    db_at_start, runs, wizard, release >>

\* line 198: genesis_reader::bootstrap_db_reader_from_gen_tx(&gen_tx)?
BootstrapDb ==
    /\ blob.step = "bootstrap"
    /\ blob' = [blob EXCEPT !.calls = Append(@, "bootstrap_db_reader_from_gen_tx"),
                            !.step = IF blob.boot = "ok" THEN "audit" ELSE "err"]
    /\ UNCHANGED << audit_vars, supply_vars, val_vars, export_vars,
                    db_at_start, runs, wizard, release >>

\* line 199: the audit is entered
CallAudit ==
    /\ blob.step = "audit"
    /\ Begin

\* the second call shares the finding list of the first
Rerun_keeps_err_list ==
    /\ pc = "done"
    /\ runs = << >>
    /\ runs' = << result >>
    /\ blob' = [blob EXCEPT !.step = "parse", !.calls = << >>]
    /\ r_as_vec' = << >>
    /\ i' = 0
    /\ user_supply' = 0
    /\ lookups' = << >>
    /\ pc' = "start"
    /\ panic_msg' = ""
    /\ result' = None
    /\ UNCHANGED << recovery, db, err_list, supply_vars, val_vars, export_vars,
                    db_at_start, wizard, release >>

\* the harness calls compare_json_to_genesis_blob again on the same files:
\* lines 47-48 give the new call its own finding list and running total
Rerun ==
    /\ pc = "done"
    /\ runs = << >>
    /\ runs' = << result >>
    /\ blob' = [blob EXCEPT !.step = "parse", !.calls = << >>]
    /\ r_as_vec' = << >>
    /\ i' = 0
    /\ err_list' = << >>
    /\ user_supply' = 0
    /\ lookups' = << >>
    /\ pc' = "start"
    /\ panic_msg' = ""
    /\ result' = None
    /\ UNCHANGED << recovery, db, supply_vars, val_vars, export_vars,
                    db_at_start, wizard, release >>

NextBlob ==
    \/ ParseJson
    \/ ReadBlob
    \/ BootstrapDb
    \/ CallAudit
    \/ AuditRecord
    \/ Return
    \/ Rerun

SpecBlob == InitBlob /\ [][NextBlob]_vars

(***************************************************************************)
(* GenesisWizard::start_wizard (wizard.rs lines 76-175) and the steps it   *)
(* calls.  wizard.steps lists the steps start_wizard has called, in order; *)
(* wizard.failed those that returned an error; wizard.github the calls     *)
(* made to GitHub that write under the user's identity; wizard.err names   *)
(* the step whose error start_wizard returned.                             *)
(***************************************************************************)
wizard_frame ==
    UNCHANGED << audit_vars, supply_vars, val_vars, export_vars, db_at_start,
                 runs, blob, release >>

InitWizard ==
    /\ AuditIdle
    /\ SupplyIdle
    /\ ValIdle
    /\ ExportIdle
    /\ db_at_start = db
    /\ runs = << >>
    /\ blob = NoBlob
    /\ release = ReleaseIdleState
    /\ \E g \in BOOLEAN :
         wizard = [WizardIdleState EXCEPT !.pc = "create_dir", !.do_genesis = g]

\* start_wizard returns Err from the step named
Fails(step) == [wizard EXCEPT !.pc = "err", !.err = step]

\* lines 84-90: the data path exists, is created, or cannot be created
CreateDataDir ==
    /\ wizard.pc = "create_dir"
    /\ \E r \in {"exists", "created", "failed"} :
         wizard' = IF r = "failed"
                   THEN Fails("create_dir_all")
                   ELSE [wizard EXCEPT !.pc = "token_check"]
    /\ wizard_frame

\* what git_token_check meets: no token can be read or typed, the token file
\* cannot be written, GitHub does not name the user, the prompt fails, or
\* the user answers the question "Is this your github user?"
TokenCheckCases ==
    {"token_err", "write_err", "user_err", "interact_err", "yes", "no"}

\* lines 198-241
git_token_check(r) ==
    [ ok         |-> r \in {"yes", "no"},
      username   |-> IF r \in {"interact_err", "yes", "no"} THEN "alice" ELSE "",
      confirmed  |-> IF r \in {"yes", "no"} THEN r ELSE "unasked" ]

\* line 92: self.git_token_check(github_token_path_opt)?
GitTokenCheck ==
    /\ wizard.pc = "token_check"
    /\ \E r \in TokenCheckCases :
         LET c == git_token_check(r)
             w == [wizard EXCEPT !.steps = Append(@, "git_token_check"),
                                 !.github_username = c.username,
                                 !.confirmed = c.confirmed]
         IN  wizard' = IF c.ok
                       THEN [w EXCEPT !.pc = "dialogue"]
                       ELSE [w EXCEPT !.pc = "err", !.err = "git_token_check",
                                      !.failed = @ \cup {"git_token_check"}]
    /\ wizard_frame

\* lines 95-108: the error of validator_dialogue is printed, nothing more
ValidatorDialogue ==
    /\ wizard.pc = "dialogue"
    /\ \E r \in {"ok", "err"} :
         wizard' = [wizard EXCEPT !.steps = Append(@, "validator_dialogue"),
                                  !.dialogue = r,
                                  !.failed = IF r = "err"
                                             THEN @ \cup {"validator_dialogue"}
                                             ELSE @,
                                  !.pc = "ask_register"]
    /\ wizard_frame

\* lines 110-113: Confirm ... .interact().unwrap()
AskRegister ==
    /\ wizard.pc = "ask_register"
    /\ \E a \in {"yes", "no", "interact_err"} :
         wizard' = CASE a = "interact_err" -> [wizard EXCEPT !.pc = "panic"]
                     [] a = "yes" -> [wizard EXCEPT !.to_register = "yes",
                                                    !.pc = "identity"]
                     [] OTHER -> [wizard EXCEPT !.to_register = "no",
                                                !.pc = "ask_ready"]
    /\ wizard_frame

\* lines 117-125: the identity file and the account address in it
ReadIdentity ==
    /\ wizard.pc = "identity"
    /\ \E r \in {"ok", "no_file", "no_address"} :
         wizard' = IF r = "ok"
                   THEN [wizard EXCEPT !.pc = "git_setup"]
                   ELSE Fails("identity")
    /\ wizard_frame

\* lines 244-296: with a repo on the user's account nothing is forked;
\* without one the user is asked, and the fork is made or the step fails
git_setup(has_branches, answer, fork_ok) ==
    IF has_branches
    THEN [ok |-> TRUE, github |-> << >>]
    ELSE IF answer = "yes"
    THEN [ok |-> fork_ok, github |-> << "fork" >>]
    ELSE [ok |-> FALSE, github |-> << >>]

\* the error of git_setup dropped, the wizard going on
GitSetup_continues_on_failure ==
    /\ wizard.pc = "git_setup"
    /\ \E has_branches \in BOOLEAN, answer \in {"yes", "no", "interact_err"},
          fork_ok \in BOOLEAN :
         LET r == git_setup(has_branches, answer, fork_ok)
         IN  wizard' = [wizard EXCEPT !.steps = Append(@, "git_setup"),
                                      !.github = @ \o r.github,
                                      !.failed = IF r.ok THEN @
                                                 ELSE @ \cup {"git_setup"},
                                      !.pc = "registration"]
    /\ wizard_frame

\* line 129: self.git_setup()?
GitSetup ==
    /\ wizard.pc = "git_setup"
    /\ \E has_branches \in BOOLEAN, answer \in {"yes", "no", "interact_err"},
          fork_ok \in BOOLEAN :
         LET r == git_setup(has_branches, answer, fork_ok)
             w == [wizard EXCEPT !.steps = Append(@, "git_setup"),
                                 !.github = @ \o r.github]
         IN  wizard' = IF r.ok
                       THEN [w EXCEPT !.pc = "registration"]
                       ELSE [w EXCEPT !.pc = "err", !.err = "git_setup",
                                      !.failed = @ \cup {"git_setup"}]
    /\ wizard_frame

\* lines 131, 299-319: genesis_registration::register on the user's fork
GenesisRegistrationGithub ==
    /\ wizard.pc = "registration"
    /\ \E ok \in BOOLEAN :
         LET w == [wizard EXCEPT
                     !.steps = Append(@, "genesis_registration_github"),
                     !.github = Append(@, "register")]
         IN  wizard' = IF ok
                       THEN [w EXCEPT !.pc = "pull_request"]
                       ELSE [w EXCEPT !.pc = "err",
                                      !.err = "genesis_registration_github",
                                      !.failed = @ \cup {"genesis_registration_github"}]
    /\ wizard_frame

\* the text of an error is a sequence of fragments; contains looks for one
AlreadyExists == "A pull request already exists"
NoCommits == "No commits between main and main"

ErrorTexts ==
    { << "422 Validation Failed", AlreadyExists, "for alice:main" >>,
      << "422 Validation Failed", NoCommits >>,
      << "a pull request already exists" >>,
      << "401 Bad credentials" >>,
      << >> }

\* what make_genesis_pull_request returns
PullRequestCalls ==
    {[ok |-> TRUE, text |-> << >>]}
      \cup {[ok |-> FALSE, text |-> t] : t \in ErrorTexts}

\* e.to_string().contains(..)
text_contains(text, fragment) == \E j \in 1 .. Len(text) : text[j] = fragment

\* every error of the GitHub call returned as an error
make_pull_request_bails_on_every_error(token_read, call) ==
    [ called |-> token_read, ok |-> token_read /\ call.ok ]

\* lines 349-388: Ok when the call succeeds or its error says that the pull
\* request is already there; Err when the token file cannot be read (the
\* call is then not made) and on every other error of the call
make_pull_request(token_read, call) ==
    [ called |-> token_read,
      ok     |-> /\ token_read
                 /\ \/ call.ok
                    \/ text_contains(call.text, AlreadyExists)
                    \/ text_contains(call.text, NoCommits) ]

\* line 133: self.make_pull_request()?
MakePullRequest ==
    /\ wizard.pc = "pull_request"
    /\ \E token_read \in BOOLEAN, call \in PullRequestCalls :
         LET r == make_pull_request(token_read, call)
             w == [wizard EXCEPT
                     !.steps = Append(@, "make_pull_request"),
                     !.github = IF r.called THEN Append(@, "pull_request") ELSE @,
                     !.pr = IF r.called
                            THEN Some([call |-> call, ok |-> r.ok])
                            ELSE None]
         IN  wizard' = IF r.ok
                       THEN [w EXCEPT !.pc = "ask_ready"]
                       ELSE [w EXCEPT !.pc = "err", !.err = "make_pull_request",
                                      !.failed = @ \cup {"make_pull_request"}]
    /\ wizard_frame

\* lines 136-143: the question is put only when do_genesis is set
AskReady ==
    /\ wizard.pc = "ask_ready"
    /\ IF wizard.do_genesis
       THEN \E a \in {"yes", "no", "interact_err"} :
              wizard' = CASE a = "interact_err" -> [wizard EXCEPT !.pc = "panic"]
                          [] a = "yes" -> [wizard EXCEPT !.ready = "yes",
                                                         !.pc = "build"]
                          [] OTHER -> [wizard EXCEPT !.ready = "no", !.pc = "ok"]
       ELSE wizard' = [wizard EXCEPT !.ready = "no", !.pc = "ok"]
    /\ wizard_frame

\* lines 145-169: the recovery file, if one is given, then genesis_builder
Build ==
    /\ wizard.pc = "build"
    /\ \E parse \in {"no_path", "ok", "err"}, build_ok \in BOOLEAN :
         wizard' = IF parse = "err"
                   THEN Fails("recovery_file_parse")
                   ELSE LET w == [wizard EXCEPT !.steps = Append(@, "build")]
                        IN  IF build_ok
                            THEN [w EXCEPT !.pc = "ok"]
                            ELSE [w EXCEPT !.pc = "err", !.err = "build",
                                           !.failed = @ \cup {"build"}]
    /\ wizard_frame

NextWizard ==
    \/ CreateDataDir
    \/ GitTokenCheck
    \/ ValidatorDialogue
    \/ AskRegister
    \/ ReadIdentity
    \/ GitSetup
    \/ GenesisRegistrationGithub
    \/ MakePullRequest
    \/ AskReady
    \/ Build

SpecWizard == InitWizard /\ [][NextWizard]_vars

(***************************************************************************)
(* ReleaseTarget (release.rs): create_release writes a bundle, load_bundle *)
(* reads the bundle of a target.  A path is a directory, as the sequence   *)
(* of its components, and a file name, as stem and extension.  A bundle is *)
(* named by the target it was built for; "old" is a bundle that was there  *)
(* before.                                                                 *)
(***************************************************************************)
ReleaseTarget == {"Head", "Devnet", "Testnet", "Mainnet"}

\* lines 29-39: Display for ReleaseTarget
Display(target) ==
    CASE target = "Head"    -> "head"
      [] target = "Devnet"  -> "devnet"
      [] target = "Testnet" -> "testnet"
      [] OTHER              -> "mainnet"

RELEASE_BUNDLE_EXTENSION == "mrb"

\* lines 74-76: format!("{}.{}", self, RELEASE_BUNDLE_EXTENSION)
file_name(target) == << Display(target), RELEASE_BUNDLE_EXTENSION >>

PathBuf(dir, name) == [dir |-> dir, file |-> name]

\* env!("CARGO_MANIFEST_DIR"): the directory of the crate when it was built
ManifestDir == "/libra-framework/framework"
OtherDir == "/home/user"

\* lines 87-90
find_bundle_path(target) ==
    PathBuf(<< ManifestDir, "releases" >>, file_name(target))

\* lines 103-108: the variable CARGO_MANIFEST_DIR of the running process, or
\* else the current directory
source_path(cargo_env, cwd) ==
    IF cargo_env # None THEN unwrap(cargo_env) ELSE cwd

\* lines 154-159: the output of create_release_options; the default joins
\* the literal "releases/head.mrb"
output(target, out, cargo_env, cwd) ==
    IF out # None
    THEN unwrap(out)
    ELSE PathBuf(<< source_path(cargo_env, cwd), "releases" >>,
                 << "head", "mrb" >>)

\* a path given with --out
CustomOut == PathBuf(<< OtherDir, "out" >>, << "custom", "mrb" >>)

\* the bundles in the releases directory of the crate before the call
OldFiles ==
    { { [path |-> find_bundle_path(t), bundle |-> "old"] : t \in ts } :
        ts \in SUBSET ReleaseTarget }

\* the file at a path replaced or created
write_file(files, path, bundle) ==
    { f \in files : f.path # path } \cup {[path |-> path, bundle |-> bundle]}

\* ReleaseBundle::read
read_file(files, path) ==
    IF \E f \in files : f.path = path
    THEN Some((CHOOSE f \in files : f.path = path).bundle)
    ELSE None

release_frame ==
    UNCHANGED << audit_vars, supply_vars, val_vars, export_vars, db_at_start,
                 runs, blob, wizard >>

InitRelease ==
    /\ AuditIdle
    /\ SupplyIdle
    /\ ValIdle
    /\ ExportIdle
    /\ db_at_start = db
    /\ runs = << >>
    /\ blob = NoBlob
    /\ wizard = WizardIdleState
    /\ release \in [ pc        : {"create"},
                     target    : ReleaseTarget,
                     dev_mode  : BOOLEAN,
                     out       : {None, Some(CustomOut)},
                     cargo_env : {None, Some(ManifestDir), Some(OtherDir)},
                     cwd       : {ManifestDir, OtherDir},
                     files     : OldFiles,
                     written   : {None},
                     loaded    : {None} ]

\* lines 163-184: the bundle is built and written to options.output, or the
\* build fails and nothing is written
CreateRelease ==
    /\ release.pc = "create"
    /\ \E built \in BOOLEAN :
         LET path == output(release.target, release.out, release.cargo_env,
                            release.cwd)
         IN  release' =
               IF built
               THEN [release EXCEPT
                       !.files = write_file(@, path, release.target),
                       !.written = Some(path),
                       !.pc = "load"]
               ELSE [release EXCEPT !.pc = "err"]
    /\ release_frame

\* lines 79-83: load_bundle of the same target
LoadBundle ==
    /\ release.pc = "load"
    /\ release' = [release EXCEPT
                     !.loaded = read_file(release.files,
                                          find_bundle_path(release.target)),
                     !.pc = "done"]
    /\ release_frame

NextRelease == CreateRelease \/ LoadBundle

SpecRelease == InitRelease /\ [][NextRelease]_vars

(***************************************************************************)
(* Vocabulary of the properties.  Position k of r_as_vec (from 1) is the   *)
(* record the loop numbers k - 1; the records 1 .. i are those whose       *)
(* closure has returned.                                                   *)
(***************************************************************************)
FindingsAt(idx) == SelectSeq(err_list, LAMBDA f : f.index = idx)

WithMessage(s, m) == SelectSeq(s, LAMBDA f : f.message = m)

LookupsAt(idx) == SelectSeq(lookups, LAMBDA l : l[1] = idx)

Migrated(account, T) == db[unwrap(account)][T]

\* a record the loop compares: not dropped, with an account whose migrated
\* balance resource exists
Audited(old) ==
    /\ old.role # "Drop"
    /\ old.account # None
    /\ Migrated(old.account, "GasCoinStoreResource").tag = "stored"

MigratedCoin(old) == Migrated(old.account, "GasCoinStoreResource").v

MigratedUnlocked(old) == Migrated(old.account, "SlowWalletBalance").v

\* C1 (as claimed): the audit never aborts: every run visits every record
\* and returns the complete finding list, whatever the records hold.
C1_AuditNeverAborts ==
    /\ pc # "panic"
    /\ pc = "done" => (i = Len(r_as_vec) /\ result = Some(err_list))

\* C2: a record with role Drop gets no finding and no balance or
\* slow-wallet lookup, whatever its other fields are.
C2_DropRecordsAreSkipped ==
    \A k \in 1 .. Len(r_as_vec) :
        r_as_vec[k].role = "Drop" =>
            /\ FindingsAt(k - 1) = << >>
            /\ LookupsAt(k - 1) = << >>

C2_Witness ==
    /\ pc = "done"
    /\ \E k \in 1 .. Len(r_as_vec) :
         LET old == r_as_vec[k]
         IN  /\ old.role = "Drop"
             /\ old.account # None
             /\ old.balance # None
             /\ Migrated(old.account, "GasCoinStoreResource").tag = "stored"
             /\ MigratedCoin(old) # unwrap(old.balance).coin

\* C3 (as claimed): every visited record without an account gets exactly one
\* finding, "account is None" with account None, expected 0 and migrated 0,
\* and no lookup.
C3_EveryRecordWithoutAccountGetsOneFinding ==
    \A k \in 1 .. i :
        r_as_vec[k].account = None =>
            /\ FindingsAt(k - 1) = << CompareError(k - 1, None, 0, 0, MsgNone) >>
            /\ LookupsAt(k - 1) = << >>

\* C3 (amended): every visited record without an account whose role is not
\* Drop gets exactly one finding, "account is None" with account None,
\* expected 0 and migrated 0, and no lookup.
C3_NonDropRecordWithoutAccountGetsOneFinding ==
    \A k \in 1 .. i :
        (r_as_vec[k].account = None /\ r_as_vec[k].role # "Drop") =>
            /\ FindingsAt(k - 1) = << CompareError(k - 1, None, 0, 0, MsgNone) >>
            /\ LookupsAt(k - 1) = << >>

C3_Witness ==
    /\ pc = "done"
    /\ Len(r_as_vec) = 2
    /\ r_as_vec[2].account = None
    /\ r_as_vec[2].role # "Drop"
    /\ Audited(r_as_vec[1])
    /\ result = Some(<< CompareError(1, None, 0, 0, MsgNone) >>)

\* C4: a visited audited record gets an "unexpected balance" finding if and
\* only if the migrated coin differs from the legacy coin; the finding
\* carries the record's account, expected = legacy coin, migrated = on-chain
\* coin.
C4_BalanceMismatchIffCoinsDiffer ==
    \A k \in 1 .. i :
        LET old == r_as_vec[k]
        IN  (Audited(old) /\ old.balance # None) =>
              LET bm == WithMessage(FindingsAt(k - 1), MsgBalance)
              IN  /\ (bm # << >>) <=> (MigratedCoin(old) # unwrap(old.balance).coin)
                  /\ Len(bm) <= 1
                  /\ \A j \in 1 .. Len(bm) :
                       bm[j] = CompareError(k - 1, old.account,
                                            unwrap(old.balance).coin,
                                            MigratedCoin(old), MsgBalance)

C4_Witness ==
    /\ pc = "done"
    /\ \E k \in 1 .. i :
         /\ Audited(r_as_vec[k])
         /\ WithMessage(FindingsAt(k - 1), MsgBalance) # << >>
    /\ \E k \in 1 .. i :
         /\ Audited(r_as_vec[k])
         /\ WithMessage(FindingsAt(k - 1), MsgBalance) = << >>

\* C5 (as claimed): when the audit returns an empty list, every non-dropped
\* record with an account that the loop walks has a migrated balance equal
\* to its legacy balance, and every such record with a slow-wallet split has
\* migrated unlocked equal to legacy unlocked and at most the migrated
\* balance.
C5_EmptyListMeansEveryRecordMigrated ==
    (pc = "done" /\ result = Some(<< >>)) =>
        \A k \in 1 .. Len(r_as_vec) :
            LET old == r_as_vec[k]
            IN  (old.role # "Drop" /\ old.account # None) =>
                  /\ old.balance # None
                  /\ Migrated(old.account, "GasCoinStoreResource")
                         = Stored(unwrap(old.balance).coin)
                  /\ old.slow_wallet # None =>
                       /\ Migrated(old.account, "SlowWalletBalance")
                              = Stored(unwrap(old.slow_wallet).unlocked)
                       /\ MigratedUnlocked(old) <= MigratedCoin(old)

\* C5 (amended): when the audit returns an empty list, every audited record
\* (kept by the normalisation, not dropped, with an account whose migrated
\* balance resource exists) has a migrated balance equal to its legacy
\* balance, and every audited record with a slow-wallet split has migrated
\* unlocked equal to legacy unlocked and at most the migrated balance.
C5_EmptyListMeansAuditedRecordsMigrated ==
    (pc = "done" /\ result = Some(<< >>)) =>
        \A k \in 1 .. Len(r_as_vec) :
            LET old == r_as_vec[k]
            IN  Audited(old) =>
                  /\ old.balance # None
                  /\ MigratedCoin(old) = unwrap(old.balance).coin
                  /\ old.slow_wallet # None =>
                       /\ Migrated(old.account, "SlowWalletBalance")
                              = Stored(unwrap(old.slow_wallet).unlocked)
                       /\ MigratedUnlocked(old) <= MigratedCoin(old)

C5_Witness ==
    /\ pc = "done"
    /\ result = Some(<< >>)
    /\ \E k \in 1 .. Len(r_as_vec) :
         Audited(r_as_vec[k]) /\ r_as_vec[k].slow_wallet # None

\* C6: the closure on a non-Drop record with an account whose balance
\* resource is absent pushes no finding, leaves the running supply alone,
\* makes the balance lookup and no other, and the loop goes on to the next
\* record.
C6_AbsentBalanceIsASoftSkip ==
    [][ ( /\ pc = "loop"
          /\ i < Len(r_as_vec)
          /\ r_as_vec[i + 1].role # "Drop"
          /\ r_as_vec[i + 1].account # None
          /\ Migrated(r_as_vec[i + 1].account, "GasCoinStoreResource") = Absent )
        => ( /\ err_list' = err_list
             /\ user_supply' = user_supply
             /\ lookups' = Append(lookups, << i, "GasCoinStoreResource" >>)
             /\ i' = i + 1
             /\ pc' = "loop" ) ]_vars

C6_Witness ==
    /\ pc = "done"
    /\ Len(r_as_vec) = 2
    /\ r_as_vec[1].role # "Drop"
    /\ r_as_vec[1].account # None
    /\ r_as_vec[1].slow_wallet # None
    /\ Migrated(r_as_vec[1].account, "GasCoinStoreResource") = Absent
    /\ FindingsAt(0) = << >>
    /\ FindingsAt(1) # << >>

\* C7 (as claimed): a migrated resource that cannot be decoded ends only
\* that account's checks: no decode error aborts the run.
C7_DecodeErrorDoesNotAbort ==
    ~(pc = "panic" /\ panic_msg \in {PanicDecodeBalance, PanicDecodeSlow})

\* C8: a visited audited record with a legacy slow-wallet split gets an
\* "unexpected slow wallet unlocked" finding if and only if the migrated
\* unlocked differs from the legacy unlocked, with expected = legacy
\* unlocked and migrated = migrated unlocked.
C8_SlowWalletMismatchIffUnlockedDiffer ==
    \A k \in 1 .. i :
        LET old == r_as_vec[k]
        IN  (Audited(old) /\ old.slow_wallet # None) =>
              LET sm == WithMessage(FindingsAt(k - 1), MsgSlow)
              IN  /\ (sm # << >>)
                        <=> (MigratedUnlocked(old) # unwrap(old.slow_wallet).unlocked)
                  /\ Len(sm) <= 1
                  /\ \A j \in 1 .. Len(sm) :
                       sm[j] = CompareError(k - 1, old.account,
                                            unwrap(old.slow_wallet).unlocked,
                                            MigratedUnlocked(old), MsgSlow)

C8_Witness ==
    /\ pc = "done"
    /\ \E k \in 1 .. i :
         /\ Audited(r_as_vec[k])
         /\ r_as_vec[k].slow_wallet # None
         /\ WithMessage(FindingsAt(k - 1), MsgSlow) # << >>
    /\ \E k \in 1 .. i :
         /\ Audited(r_as_vec[k])
         /\ r_as_vec[k].slow_wallet # None
         /\ WithMessage(FindingsAt(k - 1), MsgSlow) = << >>

\* C9: a visited audited record with a legacy slow-wallet split gets an
\* "unlocked greater than balance" finding if and only if the migrated
\* unlocked exceeds the migrated balance, whether or not it also got an
\* "unexpected slow wallet unlocked" finding.
C9_UnlockExceedsBalanceIffGreater ==
    \A k \in 1 .. i :
        LET old == r_as_vec[k]
        IN  (Audited(old) /\ old.slow_wallet # None) =>
              LET ub == WithMessage(FindingsAt(k - 1), MsgUnlock)
              IN  /\ (ub # << >>) <=> (MigratedUnlocked(old) > MigratedCoin(old))
                  /\ Len(ub) <= 1

\* one run with both findings on one record and with the unlock finding
\* alone on another whose unlocked matches the legacy value
C9_Witness ==
    /\ pc = "done"
    /\ \E k \in 1 .. i :
         /\ WithMessage(FindingsAt(k - 1), MsgSlow) # << >>
         /\ WithMessage(FindingsAt(k - 1), MsgUnlock) # << >>
    /\ \E k \in 1 .. i :
         /\ WithMessage(FindingsAt(k - 1), MsgSlow) = << >>
         /\ WithMessage(FindingsAt(k - 1), MsgUnlock) # << >>

\* C10 (as claimed): for every visited audited record whose account has a
\* migrated slow wallet with unlocked above the migrated balance, the list
\* holds an "unlocked greater than balance" finding for that account,
\* whether or not the legacy record carries a slow-wallet split.
C10_UnlockAboveBalanceAlwaysReported ==
    \A k \in 1 .. i :
        LET old == r_as_vec[k]
        IN  ( /\ Audited(old)
              /\ Migrated(old.account, "SlowWalletBalance").tag = "stored"
              /\ MigratedUnlocked(old) > MigratedCoin(old) )
            => \E j \in 1 .. Len(err_list) :
                 /\ err_list[j].account = old.account
                 /\ err_list[j].message = MsgUnlock

\* C10 (amended): for every visited audited record whose legacy record
\* carries a slow-wallet split and whose account has a migrated slow wallet
\* with unlocked above the migrated balance, the list holds an "unlocked
\* greater than balance" finding for that account, also when the migrated
\* unlocked equals the legacy unlocked; a record without a legacy split gets
\* no slow-wallet lookup and no such finding.
C10_UnlockAboveBalanceReportedForLegacySlowWallets ==
    \A k \in 1 .. i :
        LET old == r_as_vec[k]
        IN  Audited(old) =>
              IF old.slow_wallet # None
              THEN ( /\ Migrated(old.account, "SlowWalletBalance").tag = "stored"
                     /\ MigratedUnlocked(old) > MigratedCoin(old) )
                   => \E j \in 1 .. Len(err_list) :
                        /\ err_list[j].index = k - 1
                        /\ err_list[j].account = old.account
                        /\ err_list[j].expected = MigratedUnlocked(old)
                        /\ err_list[j].migrated = MigratedCoin(old)
                        /\ err_list[j].message = MsgUnlock
              ELSE /\ WithMessage(FindingsAt(k - 1), MsgUnlock) = << >>
                   /\ LookupsAt(k - 1) = << << k - 1, "GasCoinStoreResource" >> >>

C10_Witness ==
    /\ pc = "done"
    /\ \E k \in 1 .. i :
         LET old == r_as_vec[k]
         IN  /\ Audited(old)
             /\ old.slow_wallet # None
             /\ Migrated(old.account, "SlowWalletBalance")
                    = Stored(unwrap(old.slow_wallet).unlocked)
             /\ MigratedUnlocked(old) > MigratedCoin(old)
             /\ WithMessage(FindingsAt(k - 1), MsgUnlock) # << >>

\* the sum, without any width, of the migrated balances the loop has added:
\* those of the audited records among the first n
RECURSIVE AuditedBalances(_)
AuditedBalances(n) ==
    IF n = 0
    THEN 0
    ELSE AuditedBalances(n - 1)
           + (IF Audited(r_as_vec[n]) THEN MigratedCoin(r_as_vec[n]) ELSE 0)

\* C11 (as claimed): the running total never overflows, wraps or aborts the
\* audit: it always equals the exact sum of the migrated balances added so
\* far, also when that sum is above the largest u64.
C11_RunningTotalNeverOverflows ==
    /\ panic_msg # PanicOverflow
    /\ pc \in {"loop", "done"} => user_supply = AuditedBalances(i)

\* C12 (as claimed): the index of every finding is the position of its
\* record in the caller's vector, as passed in: the record the caller finds
\* at that position is the record the finding was made from.
C12_IndexIsPositionInOriginalVector ==
    \A j \in 1 .. Len(err_list) :
        /\ err_list[j].index + 1 <= Len(recovery)
        /\ recovery[err_list[j].index + 1] = r_as_vec[err_list[j].index + 1]

\* rank of a finding in the order the closure makes its tests
DiscoveryRank(f) ==
    CASE f.message = MsgNone    -> 0
      [] f.message = MsgBalance -> 1
      [] f.message = MsgSlow    -> 2
      [] OTHER                  -> 3

\* C13: the finding list is in input order: indices never decrease along
\* the list, and the findings of one record appear as unexpected balance,
\* then unexpected slow wallet unlocked, then unlocked greater than balance.
C13_FindingsInDiscoveryOrder ==
    \A j \in 1 .. Len(err_list) - 1 :
        \/ err_list[j].index < err_list[j + 1].index
        \/ /\ err_list[j].index = err_list[j + 1].index
           /\ DiscoveryRank(err_list[j]) < DiscoveryRank(err_list[j + 1])

C13_Witness ==
    /\ pc = "done"
    /\ Len(unwrap(result)) = 4
    /\ unwrap(result)[1].index = 0
    /\ unwrap(result)[2].message = MsgBalance
    /\ unwrap(result)[3].message = MsgSlow
    /\ unwrap(result)[4].message = MsgUnlock
    /\ unwrap(result)[4].index = 1

\* C14: check_supply succeeds if and only if the expected supply, widened
\* to 128 bits, equals the total supply of the ledger, whatever the records
\* and the running total of the audit are; otherwise it panics; and it
\* leaves the finding list and the result of the audit alone.
C14_CheckSupplyComparesLedgerTotal ==
    [][ supply_outcome' # supply_outcome =>
          /\ supply_outcome' \in {"ok", "panic"}
          /\ (supply_outcome' = "ok") <=> (expected_supply = total_supply(db))
          /\ err_list' = err_list
          /\ result' = result
          /\ user_supply' = user_supply ]_vars

\* the check passes after an audit that returned findings and whose running
\* total is not the expected supply
C14_Witness ==
    /\ supply_outcome = "ok"
    /\ pc = "done"
    /\ unwrap(result) # << >>
    /\ user_supply # expected_supply

\* C15 (as claimed): an audit run given an expected supply that differs
\* from the migrated total supply returns no per-account findings.
C15_SupplyMismatchAbortsAudit ==
    (as_u128(expected_supply) # total_supply(db)) => result = None

ToSet(sq) == { sq[j] : j \in 1 .. Len(sq) }

\* check_val_set has been called and the migrated validator set was read
ValChecked == val_outcome.kind # "none" /\ genesis_vals.tag = "set"

\* C16 (as claimed): check_val_set succeeds if and only if the set of
\* migrated validator addresses equals the set of expected addresses.
C16_ValSetSucceedsIffSetEqual ==
    ValChecked =>
        ((val_outcome.kind = "ok")
            <=> (ToSet(genesis_vals.vals) = ToSet(expected_vals)))

\* the expected addresses with the repetitions removed, first ones kept
RECURSIVE Dedup(_)
Dedup(sq) ==
    IF sq = << >>
    THEN << >>
    ELSE LET front == Dedup(SubSeq(sq, 1, Len(sq) - 1))
             last == sq[Len(sq)]
         IN  IF last \in ToSet(front) THEN front ELSE Append(front, last)

\* C17 (as claimed): the outcome for an expected input is the outcome for
\* the same input with the duplicates removed, and for the input reversed.
C17_ValSetIgnoresOrderAndDuplicates ==
    ValChecked =>
        /\ val_outcome.kind
             = check_val_set(Dedup(expected_vals), genesis_vals).outcome.kind
        /\ val_outcome.kind
             = check_val_set([j \in 1 .. Len(expected_vals) |->
                                 expected_vals[Len(expected_vals) + 1 - j]],
                             genesis_vals).outcome.kind

\* C18: the lengths are compared before any membership test: when they
\* differ the check panics with the length message and contains was never
\* called; the membership panic occurs only with equal lengths and an
\* expected address that the migrated list lacks.
C18_LengthComparedBeforeMembership ==
    ValChecked =>
        /\ Len(genesis_vals.vals) # Len(expected_vals) =>
             /\ val_outcome.kind = "panic"
             /\ val_outcome.msg = ValLenPanic
             /\ contains_calls = << >>
        /\ val_outcome.msg = ValContainPanic =>
             /\ val_outcome.kind = "panic"
             /\ Len(genesis_vals.vals) = Len(expected_vals)
             /\ \E v \in ToSet(expected_vals) : v \notin ToSet(genesis_vals.vals)

\* lengths differ and an expected address is missing as well
C18_Witness ==
    /\ ValChecked
    /\ val_outcome.msg = ValLenPanic
    /\ \E v \in ToSet(expected_vals) : v \notin ToSet(genesis_vals.vals)

\* the two lists, without repetitions, hold the same members but for one
\* address that only one of them has
OneExtraMember ==
    /\ NoDuplicates(expected_vals)
    /\ \/ /\ ToSet(expected_vals) \subseteq ToSet(genesis_vals.vals)
          /\ Cardinality(ToSet(genesis_vals.vals))
               = Cardinality(ToSet(expected_vals)) + 1
       \/ /\ ToSet(genesis_vals.vals) \subseteq ToSet(expected_vals)
          /\ Cardinality(ToSet(expected_vals))
               = Cardinality(ToSet(genesis_vals.vals)) + 1

\* one expected member is not in the migrated list, the sizes being equal
MemberMissing ==
    /\ Len(expected_vals) = Len(genesis_vals.vals)
    /\ \E v \in ToSet(expected_vals) : v \notin ToSet(genesis_vals.vals)

\* C19 (as claimed): with one extra address on one side the check fails on
\* the membership test; with an expected member missing the failure names
\* the missing validator.
C19_ExtraMemberFailsOnMembership ==
    ValChecked =>
        /\ OneExtraMember => val_outcome.msg = ValContainPanic
        /\ MemberMissing =>
             /\ val_outcome.validator # None
             /\ unwrap(val_outcome.validator) \in ToSet(expected_vals)
             /\ unwrap(val_outcome.validator) \notin ToSet(genesis_vals.vals)

\* C19 (amended): with one extra address on one side the check fails on
\* the length comparison and makes no membership test; with equal sizes and
\* an expected member missing it fails on the membership test at the first
\* missing address, with a fixed message that names no validator.
C19_ExtraMemberFailsOnLength ==
    ValChecked =>
        /\ OneExtraMember =>
             /\ val_outcome.kind = "panic"
             /\ val_outcome.msg = ValLenPanic
             /\ contains_calls = << >>
        /\ MemberMissing =>
             /\ val_outcome.kind = "panic"
             /\ val_outcome.msg = ValContainPanic
             /\ val_outcome.validator = None
             /\ contains_calls # << >>
             /\ contains_calls[Len(contains_calls)] \notin ToSet(genesis_vals.vals)
             /\ \A j \in 1 .. Len(contains_calls) - 1 :
                  contains_calls[j] \in ToSet(genesis_vals.vals)

\* the migrated list has the expected members and one more
C19_Witness ==
    /\ ValChecked
    /\ OneExtraMember
    /\ expected_vals # << >>
    /\ ToSet(expected_vals) \subseteq ToSet(genesis_vals.vals)
    /\ val_outcome.msg = ValLenPanic

\* the record is one the contract exports: not dropped, with an account
IsExported(old) == old.role # "Drop" /\ old.account # None

\* the dump the contract describes: one entry, in order, for each exported
\* record, with the balance and slow wallet of the migrated state
RECURSIVE ContractDump(_)
ContractDump(n) ==
    IF n = 0
    THEN << >>
    ELSE LET old == recovery[n]
             slot_b == IF old.account = None THEN Absent
                       ELSE Migrated(old.account, "GasCoinStoreResource")
             slot_s == IF old.account = None THEN Absent
                       ELSE Migrated(old.account, "SlowWalletBalance")
             opt(slot) == IF slot.tag = "stored" THEN Some(slot.v) ELSE None
         IN  ContractDump(n - 1)
               \o (IF IsExported(old)
                   THEN << JsonDump(unwrap(old.account), opt(slot_b), opt(slot_s)) >>
                   ELSE << >>)

\* C20 (as claimed): the file written holds exactly one entry for every
\* non-dropped record with an account and none for any other record, each
\* with the balance and slow wallet of the migrated state.
C20_ExportCoversNonDroppedAccounts ==
    export_pc = "done" => file = Some(ContractDump(Len(recovery)))

\* the slot of the ledger the run began with
AtStart(account, T) == db_at_start[unwrap(account)][T]

\* C21 (as claimed): every lookup of one run reads the ledger as it was when
\* the run began: the migrated values in the findings are those of that
\* ledger, also for the records audited after a writer committed a change.
C21_LookupsReadOneSnapshot ==
    \A j \in 1 .. Len(err_list) :
        LET f == err_list[j]
        IN  /\ f.message = MsgBalance =>
                 f.migrated = AtStart(f.account, "GasCoinStoreResource").v
            /\ f.message = MsgSlow =>
                 f.migrated = AtStart(f.account, "SlowWalletBalance").v
            /\ f.message = MsgUnlock =>
                 /\ f.expected = AtStart(f.account, "SlowWalletBalance").v
                 /\ f.migrated = AtStart(f.account, "GasCoinStoreResource").v

C23_AuditLeavesItsInputsAlone ==
    [][recovery' = recovery /\ db' = db]_vars

\* the audit returned after the normalisation took a record out of the copy
C23_Witness ==
    /\ pc = "done"
    /\ result # None
    /\ recovery # << >>
    /\ Len(r_as_vec) < Len(recovery)

\* the audit has not begun and nothing was returned
NotAudited ==
    /\ pc = "start"
    /\ i = 0
    /\ lookups = << >>
    /\ err_list = << >>
    /\ result = None
    /\ runs = << >>

InCalls(name) == \E j \in 1 .. Len(blob.calls) : blob.calls[j] = name

\* C24: with a recovery file that does not parse, the call fails at the
\* parse: the genesis blob is not read, the ledger is not bootstrapped, no
\* record is audited and no list is returned.  With a genesis blob that
\* cannot be read or bootstrapped the call fails before the audit begins.
C24_LoadErrorsFailBeforeTheAudit ==
    /\ blob.json_file # "ok" =>
         /\ blob.step \in {"parse", "err"}
         /\ ~InCalls("read_blob_to_tx")
         /\ ~InCalls("bootstrap_db_reader_from_gen_tx")
         /\ NotAudited
    /\ (blob.genesis_file # "ok" \/ blob.boot # "ok") =>
         /\ blob.step \in {"parse", "read_blob", "bootstrap", "err"}
         /\ NotAudited
    /\ blob.genesis_file # "ok" => ~InCalls("bootstrap_db_reader_from_gen_tx")
    /\ blob.step = "err" => NotAudited

\* the call failed at the parse of a malformed file of records
C24_Witness ==
    /\ blob.step = "err"
    /\ blob.json_file = "malformed"
    /\ blob.calls = << "recovery_file_parse" >>
    /\ recovery # << >>

\* every audited record carries the balance its account has after migration
AllAuditedBalancesMatch ==
    \A k \in 1 .. Len(r_as_vec) :
        Audited(r_as_vec[k]) =>
            r_as_vec[k].balance = Some([coin |-> MigratedCoin(r_as_vec[k])])

\* C25 (as claimed): when the audit has returned and every audited account's
\* migrated balance equals its legacy balance, the total supply of the
\* ledger equals the sum of the audited balances, so that check_supply
\* called with that sum passes.
C25_MatchingBalancesSumToTotalSupply ==
    (pc = "done" /\ AllAuditedBalancesMatch) =>
        /\ total_supply(db) = AuditedBalances(Len(r_as_vec))
        /\ (expected_supply = AuditedBalances(Len(r_as_vec)))
              => supply_outcome # "panic"

\* the steps the answers given so far call for, in the order of the code
WizardPlan ==
    << "git_token_check", "validator_dialogue" >>
      \o (IF wizard.to_register = "yes"
          THEN << "git_setup", "genesis_registration_github",
                  "make_pull_request" >>
          ELSE << >>)
      \o (IF wizard.do_genesis /\ wizard.ready = "yes"
          THEN << "build" >>
          ELSE << >>)

IsPrefix(a, b) == Len(a) <= Len(b) /\ a = SubSeq(b, 1, Len(a))

StepRan(step) == \E j \in 1 .. Len(wizard.steps) : wizard.steps[j] = step

\* C26: the steps run in the order token check, validator dialogue, then,
\* if the user registers, git_setup, genesis_registration_github and
\* make_pull_request, then the build if do_genesis is set and readiness is
\* confirmed.  A step that fails is the last step run and start_wizard
\* returns its error, except the validator dialogue, whose failure never
\* ends the wizard; the build never runs without do_genesis and a yes.
C26_WizardStepsRunInOrder ==
    /\ IsPrefix(wizard.steps, WizardPlan)
    /\ wizard.pc = "ok" => wizard.steps = WizardPlan
    /\ wizard.err # "validator_dialogue"
    /\ \A step \in wizard.failed \ {"validator_dialogue"} :
         /\ wizard.pc = "err"
         /\ wizard.err = step
         /\ wizard.steps[Len(wizard.steps)] = step
    /\ StepRan("build") => (wizard.do_genesis /\ wizard.ready = "yes")
    /\ StepRan("git_setup") => wizard.to_register = "yes"

\* a run in which the validator dialogue failed, the user registered, and
\* the registration on GitHub failed: it is the last step
C26_Witness ==
    /\ wizard.pc = "err"
    /\ wizard.failed = {"validator_dialogue", "genesis_registration_github"}
    /\ Len(wizard.steps) = 4

\* C27 (as claimed): after the user answers no to "Is this your github
\* user?" the wizard makes no call to GitHub under that identity: no fork,
\* no registration, no pull request.
C27_NoGithubActionAfterUserSaysNo ==
    wizard.confirmed = "no" => wizard.github = << >>

\* the text of the error says that the pull request is already there
SaysAlreadyThere(text) ==
    \E j \in 1 .. Len(text) : text[j] \in {AlreadyExists, NoCommits}

\* C28: when the call to GitHub was made, make_pull_request returns Ok if
\* the call succeeded or its error text contains "A pull request already
\* exists" or "No commits between main and main", and an error on every
\* other failure of the call; in the first case the wizard does not fail at
\* this step.
C28_PullRequestIsSafeToRepeat ==
    wizard.pr # None =>
        LET p == unwrap(wizard.pr)
        IN  /\ p.ok <=> (p.call.ok \/ SaysAlreadyThere(p.call.text))
            /\ p.ok => wizard.err # "make_pull_request"
            /\ ~p.ok => (wizard.pc = "err" /\ wizard.err = "make_pull_request")

\* the call failed because the pull request exists and the wizard finished
C28_Witness ==
    /\ wizard.pr # None
    /\ ~unwrap(wizard.pr).call.ok
    /\ text_contains(unwrap(wizard.pr).call.text, AlreadyExists)
    /\ wizard.pc = "ok"

\* C29 (as claimed): a release created without an output path is written at
\* releases/<target>.mrb, the path load_bundle reads for that target, and
\* load_bundle then returns the bundle just written.
C29_DefaultReleaseIsWhatLoadBundleReads ==
    (release.out = None /\ release.written # None) =>
        /\ unwrap(release.written).file
             = << Display(release.target), "mrb" >>
        /\ unwrap(release.written) = find_bundle_path(release.target)
        /\ release.pc = "done" => release.loaded = Some(release.target)

====
